---- MODULE Spec2Model ----
(***************************************************************************)
(* A model of mqgo (src/mqgo/src/meqa/mqgo/main.go): the workspace         *)
(* credential store getConfigs, the remote generation call generateMeqa    *)
(* and the validate / run / write-result sequence of main.                 *)
(*                                                                         *)
(* Three programs are checked:                                             *)
(*   SeqSpec   successive, non-overlapping calls of getConfigs on one      *)
(*             workspace directory;                                        *)
(*   ConcSpec  concurrent calls of getConfigs on one workspace directory;  *)
(*   Spec      one invocation of main ("generate" or "run"); FairSpec is   *)
(*             Spec with the progress a sequential process makes.          *)
(***************************************************************************)
EXTENDS Integers, Sequences, FiniteSets, TLC

VARIABLES
    \* ---- the workspace's .config file and the calls of getConfigs
    cfgFile,     \* <<>> when <meqaPath>/.config is absent, else <<document>>
    issued,      \* the identifiers uuid.NewV4 has returned so far
    cpc,         \* cpc[p]: where call p of getConfigs stands
    cmap,        \* cmap[p]: configMap of call p
    cerr,        \* cerr[p]: the error call p returned ("none": nil)
    loads,       \* the calls of getConfigs that returned, in order of return
    cfgLog,      \* the completed writes of .config, in order
    \* ---- one invocation of main
    cmd,         \* os.Args[1]
    args,        \* what the flags name: do the paths exist, the -t target
    pc,          \* position in main / generateMeqa
    msg,         \* what main printed before returning early
    exitCode,    \* process exit code (0: main returned)
    panicked,    \* a failed type assertion ended the process
    ws,          \* <meqaPath>/<name>.yaml files: <<>> (absent) or <<text>>
    ws0,         \* ws at process start
    resp,        \* the response req.Post returned
    respMap,     \* respMap after json.Unmarshal
    posted,      \* req.Post was called
    planOrder,   \* the order in which range visits respMap["test_plans"]
    attempts,    \* the calls of ioutil.WriteFile made by generateMeqa
    gerr,        \* the error generateMeqa returned
    planSuites,  \* the suites the test plan file declares
    SuiteList,   \* mqplan.Current.SuiteList
    swaggerErr,  \* mqswag.CreateSwaggerFromURL returned an error
    planErr,     \* mqplan.Current.InitFromFile returned an error
    calls,       \* the suite names mqplan.Current.Run was called with
    results,     \* the result document mqplan.Current has accumulated
    resultFile,  \* the file at *resultFile: <<>> or <<content>>
    resultFile0  \* that file at process start

cfgVars == <<cfgFile, issued, cpc, cmap, cerr, loads, cfgLog>>

genVars == <<ws, ws0, resp, respMap, posted, planOrder, attempts, gerr>>

runVars == <<planSuites, SuiteList, swaggerErr, planErr, calls, results,
             resultFile, resultFile0>>

mainVars == <<cmd, args, pc, msg, exitCode, panicked>>

vars == <<cfgVars, mainVars, genVars, runVars>>

\* what a step of getConfigs leaves alone
callerVars == <<mainVars, genVars, runVars>>

(***************************************************************************)
(* Bounds of the model.                                                    *)
(***************************************************************************)
MaxLoads == 3    \* successive calls of getConfigs in SeqSpec
NumProcs == 2    \* concurrent calls of getConfigs in ConcSpec
NumUUIDs == 3    \* identifiers uuid.NewV4 can return
MaxPlans == 3    \* entries of the response's test_plans mapping
MaxSuites == 3   \* suites in a test plan file

Procs == 1..NumProcs

(***************************************************************************)
(* Constants of main.go.                                                   *)
(***************************************************************************)
configFile == ".config"

ConfigAPIKey == "api_key"

UUIDPool == <<"uuid-1", "uuid-2", "uuid-3", "uuid-4", "uuid-5", "uuid-6">>

\* uuid.NewV4().String(): the values it can return
UUIDs == {UUIDPool[i] : i \in 1..NumUUIDs}

(***************************************************************************)
(* map[string]interface{} and its YAML document.  A map is a function from *)
(* its keys; a document is the text yaml.Marshal writes: one "key: value"  *)
(* line per key, keys in sorted order.                                     *)
(***************************************************************************)
EmptyMap == [k \in {} |-> ""]

\* configMap[key] == nil
IsNil(m, key) == key \notin DOMAIN m

\* the keys a config document of the model can hold, in yaml.v2's order
ConfigKeys == <<"api_key", "other">>

RECURSIVE MarshalFrom(_, _)
MarshalFrom(m, i) ==
    IF i > Len(ConfigKeys) THEN <<>>
    ELSE (IF ConfigKeys[i] \in DOMAIN m
             THEN << <<ConfigKeys[i], m[ConfigKeys[i]]>> >>
             ELSE <<>>) \o MarshalFrom(m, i + 1)

yamlMarshal(m) == [ok |-> TRUE, lines |-> MarshalFrom(m, 1)]

\* what O_CREATE|O_TRUNC leaves before the bytes are written
EmptyDoc == [ok |-> TRUE, lines |-> <<>>]

\* a file that is not a YAML mapping
MalformedDoc == [ok |-> FALSE, lines |-> <<>>]

\* yaml.Unmarshal(configBytes, &configMap), configMap empty: a later line of
\* a key replaces an earlier one
yamlUnmarshal(doc) ==
    [k \in {doc.lines[i][1] : i \in DOMAIN doc.lines} |->
        LET last == CHOOSE i \in DOMAIN doc.lines :
                        /\ doc.lines[i][1] = k
                        /\ \A j \in DOMAIN doc.lines :
                               j > i => doc.lines[j][1] # k
        IN doc.lines[last][2]]

\* the api_key a .config file holds ("" when it holds none)
PersistedKey(file) ==
    IF file = <<>> \/ ~file[1].ok THEN ""
    ELSE LET m == yamlUnmarshal(file[1])
         IN IF IsNil(m, ConfigAPIKey) THEN "" ELSE m[ConfigAPIKey]

(***************************************************************************)
(* getConfigs, call p.  ioutil.WriteFile is two steps, as in the library:  *)
(* open with O_CREATE|O_TRUNC, then write the bytes; both can fail.        *)
(***************************************************************************)
getConfigsReturn(p, e, m) ==
    /\ cpc' = [cpc EXCEPT ![p] = "done"]
    /\ cerr' = [cerr EXCEPT ![p] = e]
    /\ cmap' = [cmap EXCEPT ![p] = m]
    /\ loads' = Append(loads, [by |-> p, err |-> e, map |-> m])

\* a plausible bug: the existence test is lost and every call creates
getConfigsStatAlwaysCreate(p) ==
    /\ cpc[p] = "stat"
    /\ cpc' = [cpc EXCEPT ![p] = "create"]
    /\ UNCHANGED <<cfgFile, issued, cmap, cerr, loads, cfgLog>>
    /\ UNCHANGED callerVars

\* line 37: os.Stat(configPath); os.IsNotExist(err)
getConfigsStat(p) ==
    /\ cpc[p] = "stat"
    /\ cpc' = [cpc EXCEPT ![p] = IF cfgFile = <<>> THEN "create" ELSE "read"]
    /\ UNCHANGED <<cfgFile, issued, cmap, cerr, loads, cfgLog>>
    /\ UNCHANGED callerVars

\* lines 38-46: a fresh identifier, yaml.Marshal, WriteFile opens the file
getConfigsCreate(p) ==
    /\ cpc[p] = "create"
    /\ \E u \in UUIDs \ issued, opened \in BOOLEAN :
          /\ issued' = issued \cup {u}
          /\ IF opened
                THEN /\ cfgFile' = <<EmptyDoc>>
                     /\ cmap' = [cmap EXCEPT ![p] = ConfigAPIKey :> u]
                     /\ cpc' = [cpc EXCEPT ![p] = "write"]
                     /\ UNCHANGED <<cerr, loads>>
                ELSE /\ getConfigsReturn(p, "IOError", EmptyMap)
                     /\ UNCHANGED cfgFile
    /\ UNCHANGED cfgLog
    /\ UNCHANGED callerVars

\* a plausible bug: the write does not replace content another call wrote
getConfigsWriteKeepsFirst(p) ==
    /\ cpc[p] = "write"
    /\ cfgFile' = IF PersistedKey(cfgFile) = ""
                     THEN <<yamlMarshal(cmap[p])>> ELSE cfgFile
    /\ cfgLog' = Append(cfgLog, [load |-> Len(loads) + 1, by |-> p,
                                 key |-> cmap[p][ConfigAPIKey]])
    /\ getConfigsReturn(p, "none", cmap[p])
    /\ UNCHANGED issued
    /\ UNCHANGED callerVars

\* lines 43-47: WriteFile writes configBytes; return configMap
getConfigsWrite(p) ==
    /\ cpc[p] = "write"
    /\ \E written \in BOOLEAN :
          IF written
             THEN /\ cfgFile' = <<yamlMarshal(cmap[p])>>
                  /\ cfgLog' = Append(cfgLog, [load |-> Len(loads) + 1,
                                               by |-> p,
                                               key |-> cmap[p][ConfigAPIKey]])
                  /\ getConfigsReturn(p, "none", cmap[p])
             ELSE /\ getConfigsReturn(p, "IOError", EmptyMap)
                  /\ UNCHANGED <<cfgFile, cfgLog>>
    /\ UNCHANGED issued
    /\ UNCHANGED callerVars

\* lines 49-57: ioutil.ReadFile, yaml.Unmarshal, return configMap
getConfigsRead(p) ==
    /\ cpc[p] = "read"
    /\ \E readOK \in BOOLEAN :
          IF ~readOK THEN getConfigsReturn(p, "IOError", EmptyMap)
          ELSE IF ~cfgFile[1].ok THEN getConfigsReturn(p, "ParseError", EmptyMap)
          ELSE getConfigsReturn(p, "none", yamlUnmarshal(cfgFile[1]))
    /\ UNCHANGED <<cfgFile, issued, cfgLog>>
    /\ UNCHANGED callerVars

getConfigs(p) ==
    \/ getConfigsStat(p)
    \/ getConfigsCreate(p)
    \/ getConfigsWrite(p)
    \/ getConfigsRead(p)

(***************************************************************************)
(* The remote service's response.  A body is raw text: either not a JSON   *)
(* object, or the "key": value pairs of one.  json.Unmarshal turns it into *)
(* a map whose values are strings, numbers, objects or nil (JSON null).    *)
(***************************************************************************)
PlanNamePool == <<"plan_a", "plan_b", "plan_c", "plan_d", "plan_e">>

PlanNames == {PlanNamePool[i] : i \in 1..MaxPlans}

NoPlans == [n \in {} |-> ""]

JStr(text) == [t |-> "string", s |-> text, m |-> NoPlans]

JNum == [t |-> "number", s |-> "5", m |-> NoPlans]

JObj(plans) == [t |-> "object", s |-> "", m |-> plans]

\* the nil interface{}: what a map lookup of an absent key gives, and what
\* json.Unmarshal stores for null
JNil == [t |-> "nil", s |-> "", m |-> NoPlans]

NotJson == [json |-> FALSE, pairs |-> <<>>]

JsonObject(pairs) == [json |-> TRUE, pairs |-> pairs]

PlanMaps == UNION {[S -> {JStr("plan text"), JNum}] : S \in SUBSET PlanNames}

\* the values of "swagger_meqa", and <<>> for a body without the key
SwaggerMeqaPairs ==
    {<<>>} \cup {<< <<"swagger_meqa", v>> >> : v \in {JStr("annotated"), JNum, JNil}}

TestPlansPairs ==
    {<<>>} \cup {<< <<"test_plans", JObj(m)>> >> : m \in PlanMaps}

Bodies ==
    {NotJson} \cup {JsonObject(a \o b) : a \in SwaggerMeqaPairs, b \in TestPlansPairs}

\* resp.StatusCode() is 0 when the request failed and err (line 83) is dropped
Responses ==
    {[status |-> 0, body |-> NotJson]}
        \cup [status : {200, 299, 300, 404}, body : Bodies]

\* json.Unmarshal(resp.Body(), &respMap), respMap empty
jsonUnmarshal(body) ==
    [k \in {body.pairs[i][1] : i \in DOMAIN body.pairs} |->
        LET last == CHOOSE i \in DOMAIN body.pairs :
                        /\ body.pairs[i][1] = k
                        /\ \A j \in DOMAIN body.pairs :
                               j > i => body.pairs[j][1] # k
        IN body.pairs[last][2]]

\* respMap[key]
Lookup(m, key) == IF key \in DOMAIN m THEN m[key] ELSE JNil

(***************************************************************************)
(* Files of the workspace written by generateMeqa, and ioutil.WriteFile as *)
(* one step (no other process is looking): it succeeds, or fails to open   *)
(* the file, or fails after O_TRUNC emptied it.                            *)
(***************************************************************************)
YamlPath(name) == <<name, ".yaml">>

ConfigPath == <<"", configFile>>

NoPath == <<"", "">>

GenPaths == {YamlPath(n) : n \in {"swagger_meqa"} \cup PlanNames}

WriteOutcomes == {"ok", "open failed", "write failed"}

WriteFile(fs, path, data, outcome) ==
    CASE outcome = "ok" -> [fs EXCEPT ![path] = <<data>>]
      [] outcome = "open failed" -> fs
      [] outcome = "write failed" -> [fs EXCEPT ![path] = <<"">>]

\* the orders in which range can visit the keys S of a map
Orders(S) ==
    {o \in [1..Cardinality(S) -> S] : \A i, j \in DOMAIN o : i # j => o[i] # o[j]}

(***************************************************************************)
(* Errors.  errors.New carries only text; kind names the branch that       *)
(* built it, status and body the values formatted into it.                 *)
(***************************************************************************)
Err(kind, status, body, path) ==
    [kind |-> kind, status |-> status, body |-> body, path |-> path]

NoErr == Err("nil", 0, NotJson, NoPath)

(***************************************************************************)
(* main, lines 163-184: the checks both subcommands share, and the         *)
(* dispatch.  args.swagger: *swaggerFile exists; args.dir: what *meqaPath  *)
(* is; args.plan: -p unset, or the file it names missing or existing.      *)
(***************************************************************************)
mainReturn(text) ==
    /\ msg' = text
    /\ pc' = "done"
    /\ UNCHANGED <<exitCode, panicked>>

mainGoto(next) ==
    /\ pc' = next
    /\ UNCHANGED <<msg, exitCode, panicked>>

\* lines 160-161: the log file is opened and os.Args logged.  mqutil is
\* not part of main.go; its logger is taken to log and nothing else.
main_logger ==
    /\ pc = "logger"
    /\ mainGoto("stat_swagger")
    /\ UNCHANGED <<cmd, args, cfgVars, genVars, runVars>>

\* lines 163-166
main_statSwagger ==
    /\ pc = "stat_swagger"
    /\ IF ~args.swagger
          THEN mainReturn("can't load swagger file")
          ELSE mainGoto("stat_dir")
    /\ UNCHANGED <<cmd, args, cfgVars, genVars, runVars>>

\* lines 167-175
main_statDir ==
    /\ pc = "stat_dir"
    /\ IF args.dir = "missing"
          THEN mainReturn("meqa directory doesn't exist")
          ELSE IF args.dir # "dir"
                  THEN mainReturn("meqa directory is not a directory")
                  ELSE mainGoto("dispatch")
    /\ UNCHANGED <<cmd, args, cfgVars, genVars, runVars>>

\* lines 177, 186
main_dispatch ==
    /\ pc = "dispatch"
    /\ mainGoto(IF cmd = "generate" THEN "gen_config" ELSE "plan_flag")
    /\ UNCHANGED <<cmd, args, cfgVars, genVars, runVars>>

(***************************************************************************)
(* generateMeqa, with what main does with its result (lines 178-183):      *)
(* print the error and os.Exit(1), or return.  A failed type assertion     *)
(* panics: the process ends with exit code 2 and no error is returned.     *)
(***************************************************************************)
generateMeqaReturn(e) ==
    /\ gerr' = e
    /\ pc' = "done"
    /\ exitCode' = IF e = NoErr THEN 0 ELSE 1
    /\ UNCHANGED panicked

generateMeqaPanic ==
    /\ panicked' = TRUE
    /\ exitCode' = 2
    /\ pc' = "done"
    /\ UNCHANGED gerr

generateMeqaGoto(next) ==
    /\ pc' = next
    /\ UNCHANGED <<gerr, exitCode, panicked>>

\* lines 61-64: the call of getConfigs(meqaPath)
generateMeqa_getConfigs ==
    /\ pc = "gen_config"
    /\ cpc[1] = "idle"
    /\ cpc' = [cpc EXCEPT ![1] = "stat"]
    /\ generateMeqaGoto("gen_apikey")
    /\ UNCHANGED <<cfgFile, issued, cmap, cerr, loads, cfgLog>>
    /\ UNCHANGED <<cmd, args, msg, runVars>>
    /\ UNCHANGED <<ws, ws0, resp, respMap, posted, planOrder, attempts>>

\* a plausible bug: the nil test of lines 68-70 is dropped
generateMeqa_apiKeyUnchecked ==
    /\ pc = "gen_apikey"
    /\ cpc[1] = "done"
    /\ IF cerr[1] # "none"
          THEN generateMeqaReturn(Err(cerr[1], 0, NotJson, ConfigPath))
          ELSE generateMeqaGoto("gen_read")
    /\ UNCHANGED <<cmd, args, msg, cfgVars, runVars>>
    /\ UNCHANGED <<ws, ws0, resp, respMap, posted, planOrder, attempts>>

\* lines 65-70: getConfigs has returned
generateMeqa_apiKey ==
    /\ pc = "gen_apikey"
    /\ cpc[1] = "done"
    /\ IF cerr[1] # "none"
          THEN generateMeqaReturn(Err(cerr[1], 0, NotJson, ConfigPath))
          ELSE IF IsNil(cmap[1], ConfigAPIKey)
                  THEN generateMeqaReturn(Err("ConfigError", 0, NotJson, ConfigPath))
                  ELSE generateMeqaGoto("gen_read")
    /\ UNCHANGED <<cmd, args, msg, cfgVars, runVars>>
    /\ UNCHANGED <<ws, ws0, resp, respMap, posted, planOrder, attempts>>

\* lines 72-75: ioutil.ReadFile(swaggerPath)
generateMeqa_readSwagger ==
    /\ pc = "gen_read"
    /\ \E readOK \in BOOLEAN :
          IF readOK
             THEN generateMeqaGoto("gen_post")
             ELSE generateMeqaReturn(Err("IOError", 0, NotJson, NoPath))
    /\ UNCHANGED <<cmd, args, msg, cfgVars, runVars>>
    /\ UNCHANGED <<ws, ws0, resp, respMap, posted, planOrder, attempts>>

\* lines 77-83: req.Post(serverURL + "/specs")
generateMeqa_post ==
    /\ pc = "gen_post"
    /\ \E r \in Responses : resp' = r
    /\ posted' = TRUE
    /\ generateMeqaGoto("gen_status")
    /\ UNCHANGED <<cmd, args, msg, cfgVars, runVars>>
    /\ UNCHANGED <<ws, ws0, respMap, planOrder, attempts>>

\* a plausible bug: > for >=
generateMeqa_statusOffByOne ==
    /\ pc = "gen_status"
    /\ IF resp.status > 300
          THEN generateMeqaReturn(Err("ServiceError", resp.status, resp.body, NoPath))
          ELSE generateMeqaGoto("gen_unmarshal")
    /\ UNCHANGED <<cmd, args, msg, cfgVars, runVars>>
    /\ UNCHANGED <<ws, ws0, resp, respMap, posted, planOrder, attempts>>

\* lines 85-87
generateMeqa_status ==
    /\ pc = "gen_status"
    /\ IF resp.status >= 300
          THEN generateMeqaReturn(Err("ServiceError", resp.status, resp.body, NoPath))
          ELSE generateMeqaGoto("gen_unmarshal")
    /\ UNCHANGED <<cmd, args, msg, cfgVars, runVars>>
    /\ UNCHANGED <<ws, ws0, resp, respMap, posted, planOrder, attempts>>

\* lines 89-93
generateMeqa_unmarshal ==
    /\ pc = "gen_unmarshal"
    /\ IF resp.body.json
          THEN /\ respMap' = jsonUnmarshal(resp.body)
               /\ generateMeqaGoto("gen_swagger")
          ELSE /\ generateMeqaReturn(Err("ParseError", resp.status, resp.body, NoPath))
               /\ UNCHANGED respMap
    /\ UNCHANGED <<cmd, args, msg, cfgVars, runVars>>
    /\ UNCHANGED <<ws, ws0, resp, posted, planOrder, attempts>>

\* lines 95-101: the nil test, then respMap["swagger_meqa"].(string) and
\* the write of swagger_meqa.yaml
generateMeqa_swaggerMeqa ==
    /\ pc = "gen_swagger"
    /\ LET v == Lookup(respMap, "swagger_meqa")
           path == YamlPath("swagger_meqa")
       IN IF v = JNil
             THEN /\ generateMeqaReturn(
                        Err("ProtocolError", resp.status, resp.body, NoPath))
                  /\ UNCHANGED <<ws, attempts>>
             ELSE IF v.t # "string"
                     THEN /\ generateMeqaPanic
                          /\ UNCHANGED <<ws, attempts>>
                     ELSE \E outcome \in WriteOutcomes :
                             /\ ws' = WriteFile(ws, path, v.s, outcome)
                             /\ attempts' = Append(attempts,
                                    [path |-> path, outcome |-> outcome])
                             /\ IF outcome = "ok"
                                   THEN generateMeqaGoto("gen_range")
                                   ELSE generateMeqaReturn(
                                            Err("IOError", 0, NotJson, path))
    /\ UNCHANGED <<cmd, args, msg, cfgVars, runVars>>
    /\ UNCHANGED <<ws0, resp, respMap, posted, planOrder>>

\* line 102: respMap["test_plans"].(map[string]interface{}), and the order
\* in which range will visit it
generateMeqa_range ==
    /\ pc = "gen_range"
    /\ LET v == Lookup(respMap, "test_plans")
       IN IF v.t # "object"
             THEN /\ generateMeqaPanic
                  /\ UNCHANGED planOrder
             ELSE /\ \E o \in Orders(DOMAIN v.m) : planOrder' = o
                  /\ generateMeqaGoto("gen_plan")
    /\ UNCHANGED <<cmd, args, msg, cfgVars, runVars>>
    /\ UNCHANGED <<ws, ws0, resp, respMap, posted, attempts>>

\* the plans visited so far: attempts[1] is the write of swagger_meqa.yaml
PlansVisited == Len(attempts) - 1

\* a plausible bug: the error of a plan's write is dropped
generateMeqa_planIgnoresError ==
    /\ pc = "gen_plan"
    /\ PlansVisited < Len(planOrder)
    /\ LET planName == planOrder[PlansVisited + 1]
           planBody == Lookup(respMap, "test_plans").m[planName]
           path == YamlPath(planName)
       IN IF planBody.t # "string"
             THEN /\ generateMeqaPanic
                  /\ UNCHANGED <<ws, attempts>>
             ELSE \E outcome \in WriteOutcomes :
                     /\ ws' = WriteFile(ws, path, planBody.s, outcome)
                     /\ attempts' = Append(attempts,
                            [path |-> path, outcome |-> outcome])
                     /\ generateMeqaGoto("gen_plan")
    /\ UNCHANGED <<cmd, args, msg, cfgVars, runVars>>
    /\ UNCHANGED <<ws0, resp, respMap, posted, planOrder>>

\* lines 102-107: one iteration of the loop over the plans
generateMeqa_plan ==
    /\ pc = "gen_plan"
    /\ PlansVisited < Len(planOrder)
    /\ LET planName == planOrder[PlansVisited + 1]
           planBody == Lookup(respMap, "test_plans").m[planName]
           path == YamlPath(planName)
       IN IF planBody.t # "string"
             THEN /\ generateMeqaPanic
                  /\ UNCHANGED <<ws, attempts>>
             ELSE \E outcome \in WriteOutcomes :
                     /\ ws' = WriteFile(ws, path, planBody.s, outcome)
                     /\ attempts' = Append(attempts,
                            [path |-> path, outcome |-> outcome])
                     /\ IF outcome = "ok"
                           THEN generateMeqaGoto("gen_plan")
                           ELSE generateMeqaReturn(
                                    Err("IOError", 0, NotJson, path))
    /\ UNCHANGED <<cmd, args, msg, cfgVars, runVars>>
    /\ UNCHANGED <<ws0, resp, respMap, posted, planOrder>>

\* line 109: the loop is over
generateMeqa_return ==
    /\ pc = "gen_plan"
    /\ PlansVisited = Len(planOrder)
    /\ generateMeqaReturn(NoErr)
    /\ UNCHANGED <<cmd, args, msg, cfgVars, runVars>>
    /\ UNCHANGED <<ws, ws0, resp, respMap, posted, planOrder, attempts>>

generateMeqa ==
    \/ generateMeqa_getConfigs
    \/ getConfigs(1)
    \/ generateMeqa_apiKey
    \/ generateMeqa_readSwagger
    \/ generateMeqa_post
    \/ generateMeqa_status
    \/ generateMeqa_unmarshal
    \/ generateMeqa_swaggerMeqa
    \/ generateMeqa_range
    \/ generateMeqa_plan
    \/ generateMeqa_return

(***************************************************************************)
(* The run subcommand, lines 186-229.  mqswag and mqplan are not part of   *)
(* main.go; what their calls return is chosen here as the specification    *)
(* describes them: a load may fail and is only logged, Run reports success *)
(* or failure and adds the suite's outcome to the result document, and an  *)
(* unknown suite name is a failure.                                        *)
(***************************************************************************)
SuiteNames == {"A", "B", "C"}

Targets == {"all", "X"} \cup SuiteNames

SuiteSeqs == UNION {[1..n -> SuiteNames] : n \in 0..MaxSuites}

Names(list) == {list[i] : i \in DOMAIN list}

\* mqplan.Current.InitFromFile: the suite lists it can leave in SuiteList,
\* the whole plan, or, with an error, what it had read of it
InitFromFile(plan) ==
    {[list |-> SubSeq(plan, 1, n), err |-> n < Len(plan)] : n \in 0..Len(plan)}

\* mqplan.Current.Run(name, nil): whether it can return an error
RunFails(name) == IF name \in Names(SuiteList) THEN BOOLEAN ELSE {TRUE}

\* mqplan.Current.WriteResultToFile(path): the file afterwards.  Whether it
\* truncates an existing file or adds to it is not main.go's to say.
WriteModes == {"truncate", "append"}

WriteResultToFile(file, doc, mode) ==
    IF file = <<>> \/ mode = "truncate" THEN <<doc>> ELSE <<file[1] \o doc>>

\* a plausible bug: the file is left in place
osRemoveNothing(file) == file

\* line 228: os.Remove(*resultFile), its error dropped
osRemove(file) == <<>>

\* lines 188-191
main_planFlag ==
    /\ pc = "plan_flag"
    /\ IF args.plan = "unset"
          THEN mainReturn("You must use -p to specify a test plan file")
          ELSE mainGoto("stat_plan")
    /\ UNCHANGED <<cmd, args, cfgVars, genVars, runVars>>

\* a plausible bug: the test plan file's existence is not tested
main_statPlanUnchecked ==
    /\ pc = "stat_plan"
    /\ mainGoto("load_swagger")
    /\ UNCHANGED <<cmd, args, cfgVars, genVars, runVars>>

\* lines 193-196
main_statPlan ==
    /\ pc = "stat_plan"
    /\ IF args.plan = "missing"
          THEN mainReturn("can't load test plan file")
          ELSE mainGoto("load_swagger")
    /\ UNCHANGED <<cmd, args, cfgVars, genVars, runVars>>

\* lines 198-203: the error is logged
main_loadSwagger ==
    /\ pc = "load_swagger"
    /\ \E e \in BOOLEAN : swaggerErr' = e
    /\ mainGoto("load_plan")
    /\ UNCHANGED <<cmd, args, cfgVars, genVars>>
    /\ UNCHANGED <<planSuites, SuiteList, planErr, calls, results,
                   resultFile, resultFile0>>

\* lines 205-212: the error is logged
main_loadPlan ==
    /\ pc = "load_plan"
    /\ \E r \in InitFromFile(planSuites) :
          /\ SuiteList' = r.list
          /\ planErr' = r.err
    /\ mainGoto("run")
    /\ UNCHANGED <<cmd, args, cfgVars, genVars>>
    /\ UNCHANGED <<planSuites, swaggerErr, calls, results,
                   resultFile, resultFile0>>

\* lines 216-219 and 222-225: one call of mqplan.Current.Run
Run(name) ==
    /\ calls' = Append(calls, name)
    /\ \E failed \in RunFails(name) :
          results' = Append(results, [suite |-> name, failed |-> failed])

\* a plausible bug: the loop ends at the first suite that fails
main_runAllStopsOnError ==
    /\ pc = "run"
    /\ args.target = "all"
    /\ IF Len(calls) < Len(SuiteList)
             /\ (results = <<>> \/ ~results[Len(results)].failed)
          THEN /\ Run(SuiteList[Len(calls) + 1])
               /\ mainGoto("run")
          ELSE /\ mainGoto("write_result")
               /\ UNCHANGED <<calls, results>>
    /\ UNCHANGED <<cmd, args, cfgVars, genVars>>
    /\ UNCHANGED <<planSuites, SuiteList, swaggerErr, planErr,
                   resultFile, resultFile0>>

\* lines 214-220: one iteration of the loop over SuiteList, or its end
main_runAll ==
    /\ pc = "run"
    /\ args.target = "all"
    /\ IF Len(calls) < Len(SuiteList)
          THEN /\ Run(SuiteList[Len(calls) + 1])
               /\ mainGoto("run")
          ELSE /\ mainGoto("write_result")
               /\ UNCHANGED <<calls, results>>
    /\ UNCHANGED <<cmd, args, cfgVars, genVars>>
    /\ UNCHANGED <<planSuites, SuiteList, swaggerErr, planErr,
                   resultFile, resultFile0>>

\* a plausible bug: the -t flag is ignored and the first suite is run
main_runOneIgnoresTarget ==
    /\ pc = "run"
    /\ args.target # "all"
    /\ Run(IF SuiteList = <<>> THEN args.target ELSE SuiteList[1])
    /\ mainGoto("write_result")
    /\ UNCHANGED <<cmd, args, cfgVars, genVars>>
    /\ UNCHANGED <<planSuites, SuiteList, swaggerErr, planErr,
                   resultFile, resultFile0>>

\* lines 221-226
main_runOne ==
    /\ pc = "run"
    /\ args.target # "all"
    /\ Run(args.target)
    /\ mainGoto("write_result")
    /\ UNCHANGED <<cmd, args, cfgVars, genVars>>
    /\ UNCHANGED <<planSuites, SuiteList, swaggerErr, planErr,
                   resultFile, resultFile0>>

\* lines 228-229: os.Remove, then mqplan.Current.WriteResultToFile
main_writeResult ==
    /\ pc = "write_result"
    /\ \E mode \in WriteModes :
          resultFile' = WriteResultToFile(osRemove(resultFile), results, mode)
    /\ mainGoto("done")
    /\ UNCHANGED <<cmd, args, cfgVars, genVars>>
    /\ UNCHANGED <<planSuites, SuiteList, swaggerErr, planErr, calls, results,
                   resultFile0>>

(***************************************************************************)
(* One invocation of main.                                                 *)
(***************************************************************************)
\* the .config files a workspace can hold when generate starts
ConfigFiles0 ==
    {<<>>,
     <<yamlMarshal(ConfigAPIKey :> "uuid-0")>>,
     <<yamlMarshal((ConfigAPIKey :> "uuid-0") @@ ("other" :> "x"))>>,
     <<yamlMarshal("other" :> "x")>>,
     <<EmptyDoc>>,
     <<MalformedDoc>>}

EmptyWorkspace == [p \in GenPaths |-> <<>>]

\* the generated files a workspace can hold when generate starts
Workspaces0 ==
    {EmptyWorkspace,
     [p \in GenPaths |->
         IF p \in {YamlPath("swagger_meqa"), YamlPath(PlanNamePool[1])}
            THEN <<"old">> ELSE <<>>]}

\* what the result path can hold when run starts
ResultFiles0 == {<<>>, << <<[suite |-> "old", failed |-> TRUE]>> >>}

NoConfigCalls ==
    /\ issued = {}
    /\ cpc = [p \in Procs |-> "idle"]
    /\ cmap = [p \in Procs |-> EmptyMap]
    /\ cerr = [p \in Procs |-> "none"]
    /\ loads = <<>>
    /\ cfgLog = <<>>

Init ==
    /\ cmd \in {"generate", "run"}
    /\ args \in [swagger : BOOLEAN, dir : {"missing", "file", "dir"},
                 plan : {"unset", "missing", "exists"}, target : Targets]
    /\ cmd = "generate" => args.plan = "unset" /\ args.target = "all"
    /\ pc = "logger"
    /\ msg = ""
    /\ exitCode = 0
    /\ panicked = FALSE
    /\ cfgFile \in (IF cmd = "generate" /\ args.dir = "dir"
                       THEN ConfigFiles0 ELSE {<<>>})
    /\ NoConfigCalls
    /\ ws0 \in (IF cmd = "generate" /\ args.dir = "dir"
                   THEN Workspaces0 ELSE {EmptyWorkspace})
    /\ ws = ws0
    /\ resp = [status |-> 0, body |-> NotJson]
    /\ respMap = EmptyMap
    /\ posted = FALSE
    /\ planOrder = <<>>
    /\ attempts = <<>>
    /\ gerr = NoErr
    /\ planSuites \in (IF cmd = "run" /\ args.plan = "exists"
                          THEN SuiteSeqs ELSE {<<>>})
    /\ SuiteList = <<>>
    /\ swaggerErr = FALSE
    /\ planErr = FALSE
    /\ calls = <<>>
    /\ results = <<>>
    /\ resultFile0 \in (IF cmd = "run" THEN ResultFiles0 ELSE {<<>>})
    /\ resultFile = resultFile0

Next ==
    \/ main_logger
    \/ main_statSwagger
    \/ main_statDir
    \/ main_dispatch
    \/ generateMeqa
    \/ main_planFlag
    \/ main_statPlan
    \/ main_loadSwagger
    \/ main_loadPlan
    \/ main_runAll
    \/ main_runOne
    \/ main_writeResult

Spec == Init /\ [][Next]_vars

\* main is one sequential process: while it has a step to take, it takes it
FairSpec == Spec /\ WF_vars(Next)

(***************************************************************************)
(* Calls of getConfigs alone, on a workspace directory without .config.    *)
(***************************************************************************)
NoMain ==
    /\ cmd = "none"
    /\ args = [swagger |-> FALSE, dir |-> "dir", plan |-> "unset", target |-> "all"]
    /\ pc = "done"
    /\ msg = ""
    /\ exitCode = 0
    /\ panicked = FALSE
    /\ ws0 = EmptyWorkspace
    /\ ws = ws0
    /\ resp = [status |-> 0, body |-> NotJson]
    /\ respMap = EmptyMap
    /\ posted = FALSE
    /\ planOrder = <<>>
    /\ attempts = <<>>
    /\ gerr = NoErr
    /\ planSuites = <<>>
    /\ SuiteList = <<>>
    /\ swaggerErr = FALSE
    /\ planErr = FALSE
    /\ calls = <<>>
    /\ results = <<>>
    /\ resultFile0 = <<>>
    /\ resultFile = resultFile0

SeqInit ==
    /\ NoMain
    /\ cfgFile = <<>>
    /\ NoConfigCalls

\* the next call of getConfigs, once the one before has returned
SeqLoad ==
    /\ cpc[1] \in {"idle", "done"}
    /\ Len(loads) < MaxLoads
    /\ cpc' = [cpc EXCEPT ![1] = "stat"]
    /\ cmap' = [cmap EXCEPT ![1] = EmptyMap]
    /\ cerr' = [cerr EXCEPT ![1] = "none"]
    /\ UNCHANGED <<cfgFile, issued, loads, cfgLog>>
    /\ UNCHANGED callerVars

SeqNext ==
    \/ SeqLoad
    \/ getConfigs(1)

SeqSpec == SeqInit /\ [][SeqNext]_vars

ConcInit ==
    /\ NoMain
    /\ cfgFile = <<>>
    /\ issued = {}
    /\ cpc = [p \in Procs |-> "stat"]
    /\ cmap = [p \in Procs |-> EmptyMap]
    /\ cerr = [p \in Procs |-> "none"]
    /\ loads = <<>>
    /\ cfgLog = <<>>

ConcNext == \E p \in Procs : getConfigs(p)

ConcSpec == ConcInit /\ [][ConcNext]_vars

(***************************************************************************)
(* The properties checked.                                                 *)
(***************************************************************************)
IsPrefix(a, b) == Len(a) <= Len(b) /\ SubSeq(b, 1, Len(a)) = a

\* the api_key a call of getConfigs returned ("" when its map has none)
ReturnedKey(load) ==
    IF IsNil(load.map, ConfigAPIKey) THEN "" ELSE load.map[ConfigAPIKey]

\* C1 (SeqSpec): credential stability.  Over successive calls of getConfigs
\* on a workspace that starts without .config, the file is written at most
\* once and what it holds is never changed afterwards; every call from the
\* writing one on that returns a config returns the api_key written; and
\* when the first call returns a config, it is the first call that wrote.
\* (A call that returns an I/O error returns no config.)
C1_CredentialStability ==
    /\ Len(cfgLog) <= 1
    /\ cfgLog # <<>> =>
          /\ PersistedKey(cfgFile) = cfgLog[1].key
          /\ \A i \in cfgLog[1].load..Len(loads) :
                loads[i].err = "none" => ReturnedKey(loads[i]) = cfgLog[1].key
    /\ (loads # <<>> /\ loads[1].err = "none") =>
          /\ Len(cfgLog) = 1
          /\ cfgLog[1].load = 1
          /\ ReturnedKey(loads[1]) = cfgLog[1].key

\* three calls returned a config: one write, by the first, and one key
C1_Witness ==
    /\ Len(loads) >= 3
    /\ \A i \in 1..3 : loads[i].err = "none" /\ ReturnedKey(loads[i]) # ""
    /\ Len(cfgLog) = 1
    /\ ReturnedKey(loads[3]) = PersistedKey(cfgFile)

\* C2 (Spec): generation failure isolation.  Once req.Post has returned a
\* response with status >= 300, generateMeqa writes no file (no WriteFile
\* call, the .yaml files are as at the start) and returns the error built
\* from that status and the raw body; main exits with code 1.
C2_GenerationFailureIsolation ==
    (cmd = "generate" /\ posted /\ resp.status >= 300) =>
        /\ attempts = <<>>
        /\ ws = ws0
        /\ pc \in {"gen_status", "done"}
        /\ ~panicked
        /\ pc = "done" =>
              /\ gerr = Err("ServiceError", resp.status, resp.body, NoPath)
              /\ exitCode = 1

\* a 404 on a workspace without generated files
C2_Witness ==
    /\ cmd = "generate"
    /\ pc = "done"
    /\ posted
    /\ resp.status = 404
    /\ resp.body.json
    /\ gerr.kind = "ServiceError"
    /\ ws0 = EmptyWorkspace
    /\ ws = EmptyWorkspace

\* the value respMap["swagger_meqa"] will have for this body
SwaggerMeqaOf(body) == Lookup(jsonUnmarshal(body), "swagger_meqa")

\* C3 (Spec): protocol failure on success.  For a response with status
\* < 300 whose JSON body has swagger_meqa absent or not a string,
\* generateMeqa returns the protocol error carrying status and body, does
\* not end abnormally, and writes no file.
C3_ProtocolFailureOnSuccess ==
    (/\ cmd = "generate"
     /\ pc = "done"
     /\ posted
     /\ resp.status < 300
     /\ resp.body.json
     /\ SwaggerMeqaOf(resp.body).t # "string") =>
        /\ gerr = Err("ProtocolError", resp.status, resp.body, NoPath)
        /\ ~panicked
        /\ attempts = <<>>
        /\ ws = ws0

\* the plans of the response being published
PlansOf(m) == Lookup(m, "test_plans").m

\* C4 (Spec): partial publish.  If the write of the k-th plan file, in the
\* order of iteration, fails, it is the last write attempted and
\* generateMeqa returns its error at once; swagger_meqa.yaml and the plan
\* files of iterations 1..k-1 hold their new content, and the files of the
\* plans after k are as they were at the start.
C4_PartialPublish ==
    \A k \in 1..PlansVisited :
        attempts[k + 1].outcome # "ok" =>
            /\ k = PlansVisited
            /\ attempts[k + 1].path = YamlPath(planOrder[k])
            /\ pc = "done"
            /\ gerr = Err("IOError", 0, NotJson, YamlPath(planOrder[k]))
            /\ exitCode = 1
            /\ ws[YamlPath("swagger_meqa")] = <<Lookup(respMap, "swagger_meqa").s>>
            /\ \A i \in 1..(k - 1) :
                  /\ attempts[i + 1] =
                        [path |-> YamlPath(planOrder[i]), outcome |-> "ok"]
                  /\ ws[YamlPath(planOrder[i])] =
                        <<PlansOf(respMap)[planOrder[i]].s>>
            /\ \A j \in (k + 1)..Len(planOrder) :
                  ws[YamlPath(planOrder[j])] = ws0[YamlPath(planOrder[j])]

\* three plans, the second write fails after the first succeeded
C4_Witness ==
    /\ pc = "done"
    /\ Len(planOrder) = 3
    /\ Len(attempts) = 3
    /\ attempts[2].outcome = "ok"
    /\ attempts[3].outcome # "ok"
    /\ ws0 = EmptyWorkspace
    /\ ws[YamlPath(planOrder[1])] = <<"plan text">>
    /\ ws[YamlPath(planOrder[3])] = <<>>
    /\ gerr.kind = "IOError"

\* the run got past the checks of lines 163-196
RunValid ==
    /\ cmd = "run"
    /\ args.swagger
    /\ args.dir = "dir"
    /\ args.plan = "exists"

\* the calls of mqplan.Current.Run the -t target asks for
ExpectedCalls == IF args.target = "all" THEN SuiteList ELSE <<args.target>>

\* C5 (Spec): suite selection.  The calls of Run made so far are always the
\* first ones of: every suite of SuiteList once, in its order, when the
\* target is "all"; the target alone otherwise.  When the suites have been
\* run, exactly those calls have been made.
C5_SuiteSelection ==
    cmd = "run" =>
        /\ IsPrefix(calls, ExpectedCalls)
        /\ (RunValid /\ pc \in {"write_result", "done"}) => calls = ExpectedCalls

\* target "all" on the suites A, B, C
C5_Witness ==
    /\ RunValid
    /\ pc = "done"
    /\ args.target = "all"
    /\ SuiteList = <<"A", "B", "C">>
    /\ calls = <<"A", "B", "C">>

\* C6 (FairSpec): continue on failure.  A run with target "all" that got
\* past validation always comes to the end with Run called for every suite
\* of SuiteList and the result document written, whatever the calls of Run
\* reported.
C6_ContinueOnFailure ==
    (RunValid /\ args.target = "all") ~>
        (/\ pc = "done"
         /\ calls = SuiteList
         /\ Len(results) = Len(SuiteList)
         /\ resultFile = <<results>>)

\* every suite failed, all were attempted and the result was written
C6_Witness ==
    /\ RunValid
    /\ args.target = "all"
    /\ pc = "done"
    /\ Len(SuiteList) >= 2
    /\ calls = SuiteList
    /\ \A i \in DOMAIN results : results[i].failed
    /\ resultFile = <<results>>

C10_LastWriterWins ==
    (/\ \A p \in Procs : cpc[p] = "done"
     /\ \A i \in DOMAIN loads : loads[i].err = "none"
     /\ cfgLog # <<>>) =>
        PersistedKey(cfgFile) = cfgLog[Len(cfgLog)].key

\* two calls saw no file, each wrote its own api_key, and one of them
\* returned an api_key that is not the one the file holds in the end
C10_Witness ==
    /\ \A p \in Procs : cpc[p] = "done"
    /\ Len(cfgLog) >= 2
    /\ cfgLog[1].key # cfgLog[2].key
    /\ \E i \in DOMAIN loads :
          /\ loads[i].err = "none"
          /\ ReturnedKey(loads[i]) # ""
          /\ ReturnedKey(loads[i]) # PersistedKey(cfgFile)
    /\ PersistedKey(cfgFile) # ""

====
